---- MODULE Spec2Model ----
(***************************************************************************)
(* The Mosaic client (src/main.py, src/network.py, src/config.py): the     *)
(* frame decoder parse_frame_data, the fetch_frame header parser, and the  *)
(* fetch / playback loop of main().                                        *)
(*                                                                         *)
(* Time is in milliseconds.  The variable now is the true time; every      *)
(* time.sleep(s) adds s*1000 to it; a transport call adds its latency;     *)
(* rendering takes no time.  time.time() reads now to the resolution of    *)
(* the clock: CPython returns a float, MicroPython (the target: the code   *)
(* imports network and urequests) an integer number of seconds.            *)
(*                                                                         *)
(* A Python bytes object is a view [body, lo, hi]: the bytes lo..hi-1 of a *)
(* body.  In the scheduler a body is a descriptor [name, len] of a         *)
(* response body; in the decoder's own specification it is a sequence of   *)
(* byte values, so that the content of a slice can be compared.            *)
(***************************************************************************)
EXTENDS Integers, Sequences, FiniteSets, TLC

VARIABLES
    now,                \* the true time, in ms
    clock_res,          \* the resolution of time.time(), in ms; fixed for a run
    pc,                 \* position of main()'s loop
    current_time,       \* main.py:111
    last_frame_time,    \* main.py:105
    current_dwell_secs, \* main.py:106
    retry_count,        \* main.py:104
    attempt,            \* main.py:118
    pixel_data,         \* main.py:115
    headers,            \* main.py:116
    frame_count,        \* main.py:140
    frame_delay_ms,     \* main.py:141
    frames,             \* main.py:158
    frame_index,        \* main.py:178
    animation_start,    \* main.py:177
    screen,             \* what the display shows: the last frame or error pattern
    outcome,            \* history: what the transport did on the last call
    calls,              \* history: fetch_frame calls of the current fetch cycle
    sleeps,             \* history: retry sleeps of the current fetch cycle
    fails,              \* history: failed attempts of the current fetch cycle
    renders,            \* history: display_frame calls since the last successful fetch_frame
    cycle_start,        \* history: time.time() at which the current fetch cycle started
    last_cycle,         \* history: how the last finished loop iteration ended
    err_time,           \* history: the time the last error pattern was shown
    learned_dwell,      \* history: the dwell_secs of the last response that went into playback
    pin,                \* decoder harness: the arguments of parse_frame_data
    pout,               \* decoder harness: its result
    ppc                 \* decoder harness: position

vars == <<now, clock_res, pc, current_time, last_frame_time, current_dwell_secs, retry_count,
          attempt, pixel_data, headers, frame_count, frame_delay_ms, frames,
          frame_index, animation_start, screen, outcome, calls, sleeps, fails,
          renders, cycle_start, last_cycle, err_time, learned_dwell, pin, pout, ppc>>

schedVars == <<now, clock_res, pc, current_time, last_frame_time, current_dwell_secs, retry_count,
               attempt, pixel_data, headers, frame_count, frame_delay_ms, frames,
               frame_index, animation_start, screen, outcome, calls, sleeps, fails,
               renders, cycle_start, last_cycle, err_time, learned_dwell>>

parseVars == <<pin, pout, ppc>>

----------------------------------------------------------------------------
(* Bounds of the model *)

\* The clock stops the model here (ms).
MaxTime == 24000
\* The longest payload of the decoder's own specification.
MaxLen == 9

----------------------------------------------------------------------------
(* src/config.py *)

DISPLAY_WIDTH == 64
DISPLAY_HEIGHT == 32
DEFAULT_DWELL_SECS == 10
MAX_FRAME_DELAY_MS == 500
FRAME_FETCH_RETRY_ATTEMPTS == 3
FRAME_FETCH_RETRY_DELAY == 2
ERROR_DISPLAY_TIME == 3
BRIGHTNESS == 200

\* time.sleep(0.1) of the dwell branch, in ms
DWELL_TICK_MS == 100

----------------------------------------------------------------------------
(* Python values *)

None == [some |-> FALSE]
Some(x) == [some |-> TRUE, val |-> x]

Min(a, b) == IF a <= b THEN a ELSE b
Max(a, b) == IF a >= b THEN a ELSE b

\* len(b) of a bytes object
BytesLen(b) == b.hi - b.lo

\* A slice index as Python normalises it against a length.
SliceIndex(i, n) == IF i < 0 THEN Max(i + n, 0) ELSE Min(i, n)

\* b[start:end] of a bytes object
BytesSlice(b, start, end) ==
    LET n == BytesLen(b)
        s == SliceIndex(start, n)
        e == SliceIndex(end, n)
    IN  [body |-> b.body, lo |-> b.lo + s, hi |-> b.lo + Max(s, e)]

\* time.time() when the true time is t
time_time(t) == (t \div clock_res) * clock_res

\* d.get(key, default) of a dict
DictGet(d, key, default) == IF key \in DOMAIN d THEN d[key] ELSE default

----------------------------------------------------------------------------
(* main.py: parse_frame_data *)

\* frames after the loop "for i in range(frame_count)" has run k times
RECURSIVE SliceFrames(_, _, _)
SliceFrames(pixel_bytes, bytes_per_frame, k) ==
    IF k <= 0 THEN <<>>
    ELSE Append(SliceFrames(pixel_bytes, bytes_per_frame, k - 1),
                BytesSlice(pixel_bytes, (k - 1) * bytes_per_frame,
                           (k - 1) * bytes_per_frame + bytes_per_frame))

\* Variant: the loop runs range(frame_count - 1), so the last frame is missing.
parse_frame_data_drop_last(pixel_bytes, n, width, height) ==
    LET bytes_per_frame == width * height * 3
        total_expected == bytes_per_frame * n
    IN  IF BytesLen(pixel_bytes) < total_expected
        THEN None
        ELSE Some(SliceFrames(pixel_bytes, bytes_per_frame, n - 1))

\* Variant: the length test forgets frame_count and asks for one frame only.
parse_frame_data_one_frame(pixel_bytes, n, width, height) ==
    LET bytes_per_frame == width * height * 3
    IN  IF BytesLen(pixel_bytes) < bytes_per_frame
        THEN None
        ELSE Some(SliceFrames(pixel_bytes, bytes_per_frame, n))

\* Variant: the payload is sliced without the length test.
parse_frame_data_unchecked(pixel_bytes, n, width, height) ==
    Some(SliceFrames(pixel_bytes, width * height * 3, n))

parse_frame_data(pixel_bytes, n, width, height) ==
    LET bytes_per_frame == width * height * 3
        total_expected == bytes_per_frame * n
    IN  IF BytesLen(pixel_bytes) < total_expected
        THEN None
        ELSE Some(SliceFrames(pixel_bytes, bytes_per_frame, n))

----------------------------------------------------------------------------
(* network.py: fetch_frame *)

\* A response header: absent, present with an integer, or present and not an integer.
Absent == [k |-> "absent", v |-> 0]
Bad == [k |-> "bad", v |-> 0]
Int_(v) == [k |-> "int", v |-> v]

\* Variant: a missing header reads as 0.
HeaderIntOrZero(h, default) == h.v

\* int(response.headers.get(name, default))
HeaderInt(h, default) == IF h.k = "absent" THEN default ELSE h.v

HeaderNames == {"width", "height", "frame_count", "delay_ms", "dwell_secs", "brightness"}

\* What the transport does on one call: it raises, or it returns a response.
Raise == [raise |-> TRUE]
Response(name, status, w, h, n, delay, dwell, len) ==
    [raise |-> FALSE, status |-> status,
     hdr |-> [width |-> w, height |-> h, frame_count |-> n, delay_ms |-> delay,
              dwell_secs |-> dwell, brightness |-> Absent],
     body |-> [name |-> name, len |-> len]]

\* response.content
Content(resp) == [body |-> resp.body, lo |-> 0, hi |-> resp.body.len]

\* Variant: a header that is not an integer reads as its default.
fetch_frame_lenient(o) ==
    IF o.raise THEN [pixels |-> None, headers |-> None]
    ELSE [pixels |-> Some(Content(o)),
          headers |-> Some([width |-> HeaderInt(o.hdr.width, 64),
                            height |-> HeaderInt(o.hdr.height, 32),
                            frame_count |-> HeaderInt(o.hdr.frame_count, 1),
                            delay_ms |-> HeaderInt(o.hdr.delay_ms, 100),
                            dwell_secs |-> HeaderInt(o.hdr.dwell_secs, 10),
                            brightness |-> HeaderInt(o.hdr.brightness, 200)])]

fetch_frame(o) ==
    IF o.raise THEN [pixels |-> None, headers |-> None]
    ELSE IF \E name \in HeaderNames : o.hdr[name].k = "bad"
    THEN [pixels |-> None, headers |-> None]
    ELSE [pixels |-> Some(Content(o)),
          headers |-> Some([width |-> HeaderInt(o.hdr.width, 64),
                            height |-> HeaderInt(o.hdr.height, 32),
                            frame_count |-> HeaderInt(o.hdr.frame_count, 1),
                            delay_ms |-> HeaderInt(o.hdr.delay_ms, 100),
                            dwell_secs |-> HeaderInt(o.hdr.dwell_secs, 10),
                            brightness |-> HeaderInt(o.hdr.brightness, 200)])]

----------------------------------------------------------------------------
(* The server and the network: what one transport call can bring *)

\* width * height * 3 of the device
FrameBytes == DISPLAY_WIDTH * DISPLAY_HEIGHT * 3

\* A well-formed 200 response: n frames of the device's size, the body exact.
Good(name, n, delay, dwell) ==
    Response(name, 200, Int_(DISPLAY_WIDTH), Int_(DISPLAY_HEIGHT), Int_(n),
             Int_(delay), Int_(dwell), n * FrameBytes)

Responses ==
    { Good("two", 2, 200, 5),
      Good("three", 3, 600, 1),
      Good("one", 1, 100, 2),
      Good("still", 1, 0, 11),
      \* no metadata header at all, one frame in the body
      Response("bare", 200, Absent, Absent, Absent, Absent, Absent, FrameBytes),
      \* a body longer than declared
      Response("long", 200, Int_(64), Int_(32), Int_(1), Int_(200), Int_(1), FrameBytes + 10),
      \* truncated bodies
      Response("short", 200, Int_(64), Int_(32), Int_(2), Int_(200), Int_(12), 2 * FrameBytes - 1),
      Response("half", 200, Int_(64), Int_(32), Int_(2), Int_(200), Int_(1), FrameBytes),
      \* another resolution
      Response("small", 200, Int_(32), Int_(16), Int_(1), Int_(200), Int_(12), 32 * 16 * 3),
      Response("tall", 200, Int_(64), Int_(64), Int_(1), Int_(200), Int_(1), 64 * 64 * 3),
      \* a header that is not an integer
      Response("garbled", 200, Int_(64), Int_(32), Bad, Int_(200), Int_(5), FrameBytes),
      \* no frame declared
      Response("empty", 200, Int_(64), Int_(32), Int_(0), Int_(200), Int_(5), 0),
      \* error responses of the server: a short error page, and a long one
      Response("e500", 500, Absent, Absent, Absent, Absent, Absent, 21),
      Response("e404", 404, Absent, Absent, Absent, Absent, Absent, FrameBytes) }

Outcomes == {Raise} \cup Responses

\* How long one transport call takes (ms); urequests.get has timeout=10.
Latencies == {0, 2500}

----------------------------------------------------------------------------
(* main.py: main, the loop of lines 108-213 *)

\* Variant: the dwell is compared in the wrong unit.
DwellExpiredWrongUnit(t, last, dwell) == t - last >= dwell * 100

\* Variant: the dwell test is strict.
DwellExpiredStrict(t, last, dwell) == t - last > dwell * 1000

\* current_time - last_frame_time >= current_dwell_secs
DwellExpired(t, last, dwell) == t - last >= dwell * 1000

\* Variant: only the first failure is followed by a sleep.
NeedRetrySleepFirstOnly(a) == a < FRAME_FETCH_RETRY_ATTEMPTS - 2

\* Variant: the final failure is followed by a sleep too.
NeedRetrySleepAlways(a) == a < FRAME_FETCH_RETRY_ATTEMPTS

\* attempt < FRAME_FETCH_RETRY_ATTEMPTS - 1
NeedRetrySleep(a) == a < FRAME_FETCH_RETRY_ATTEMPTS - 1

\* Variant: only the width is compared.
DimensionsMatchWidthOnly(w, h) == w = DISPLAY_WIDTH

\* not (server_width != DISPLAY_WIDTH or server_height != DISPLAY_HEIGHT)
DimensionsMatch(w, h) == ~(w # DISPLAY_WIDTH \/ h # DISPLAY_HEIGHT)

\* Variant: a response of another resolution does not end the retry loop.
BreaksRetryLoopIfMatching(r) ==
    /\ r.pixels.some
    /\ DimensionsMatch(r.headers.val.width, r.headers.val.height)

\* line 121: if pixel_data is not None: break
BreaksRetryLoop(r) == r.pixels.some

\* Variant: the playback loop ends one frame early.
AnimationCompleteEarly(i, n) == i >= n - 1

\* frame_index >= frame_count
AnimationComplete(i, n) == i >= n

\* Variant: the delay is divided once too often.
delay_seconds_short(ms) == ms \div 1000

\* delay_seconds = frame_delay_ms / 1000.0, kept in ms
delay_seconds(ms) == ms

\* Variant: the dwell timer restarts from the fetch, not from the end of playback.
PlaybackEndTimeFromFetch(t, start) == start

\* last_frame_time = time.time() after the playback loop (line 195): t is the
\* clock there, start is animation_start
PlaybackEndTime(t, start) == t

\* The resolutions of time.time(): 1 ms stands for the float of CPython, 1000 ms
\* for the integer seconds of MicroPython.
\* lines 135, 153, 169: the dwell an error path leaves in force; d is the
\* dwell the loop held when the error was found
ErrorDwellKept(d) == d
ErrorDwell(d) == DEFAULT_DWELL_SECS

\* line 134: retry_count += 1
RetryCountTwice(c) == c + 2
RetryCountAfterFailure(c) == c + 1

\* lines 137, 155, 171, 213: after the error hold the while loop goes on (the
\* continue statements, and the end of the except block inside the loop)
AfterErrorHoldExit == "exit"
AfterErrorHold == "top"

\* display.display_frame(frame) (the render sink; its code is not among the
\* sources): a push that succeeds shows the frame; a push that fails is logged
\* by the sink, leaves the matrix as it was and raises nothing.
PushOutcomes == BOOLEAN
display_frame(scr, frame, ok) ==
    IF ok THEN [kind |-> "frame", frame |-> frame] ELSE scr

\* Variant: a failed push is raised into the loop.
RenderAbortsOnFailure(ok) == ~ok

\* line 182: the call is a statement; main does not look at its result
RenderAborts(ok) == FALSE

\* What the transport does with the registration POST: it raises, or the
\* server answers with a status.
RegisterOutcomes ==
    { Raise,
      Response("registered", 200, Absent, Absent, Absent, Absent, Absent, 0),
      Response("refused", 500, Absent, Absent, Absent, Absent, Absent, 0) }

\* Variant: register_display without its try/except.
register_display_unguarded(o) ==
    IF o.raise THEN [raised |-> TRUE, value |-> FALSE]
    ELSE [raised |-> FALSE, value |-> o.status = 200]

\* network.py register_display: the result of the call, and whether it raised
register_display(o) ==
    IF o.raise THEN [raised |-> FALSE, value |-> FALSE]
    ELSE [raised |-> FALSE, value |-> o.status = 200]

\* Variant: the handler restarts the dwell from the time the exception was caught.
HandlerRestartTimeAtCatch(caught, held) == caught

\* line 213: last_frame_time = time.time(), read after the sleep of line 211;
\* caught and held are the clock readings before and after the hold
HandlerRestartTime(caught, held) == held

ClockResolutions == {1, 1000}

\* The clock readings at which the loop may be entered: a clock that starts
\* at 0, and one that is already past the default dwell.
StartClocks == {0, DEFAULT_DWELL_SECS * 1000}

Init ==
    /\ now \in StartClocks
    /\ clock_res \in ClockResolutions
    /\ pc = "startup"
    /\ current_time = 0
    /\ last_frame_time = 0
    /\ current_dwell_secs = DEFAULT_DWELL_SECS
    /\ retry_count = 0
    /\ attempt = 0
    /\ pixel_data = None
    /\ headers = None
    /\ frame_count = 0
    /\ frame_delay_ms = 0
    /\ frames = None
    /\ frame_index = 0
    /\ animation_start = 0
    /\ screen = [kind |-> "blank"]
    /\ outcome = Raise
    /\ calls = 0
    /\ sleeps = 0
    /\ fails = 0
    /\ renders = <<>>
    /\ cycle_start = 0
    /\ last_cycle = "none"
    /\ err_time = 0
    /\ learned_dwell = DEFAULT_DWELL_SECS
    /\ pin = [payload |-> <<>>, n |-> 0, width |-> 0, height |-> 0]
    /\ pout = None
    /\ ppc = "off"

\* lines 88-106: the health check, the registration and the entry into the
\* loop.  now is the clock at loop entry: the time these calls and the 5 s
\* sleep after a failed health check take is part of the start clock.
Startup ==
    /\ pc = "startup"
    /\ \E healthy \in BOOLEAN, o \in RegisterOutcomes :
         /\ screen' = IF healthy THEN screen ELSE [kind |-> "connection"]
         /\ outcome' = o
         /\ pc' = IF register_display(o).raised THEN "exit" ELSE "top"
    /\ UNCHANGED <<clock_res, learned_dwell, now, current_time, last_frame_time,
                   current_dwell_secs, retry_count, attempt, pixel_data, headers,
                   frame_count, frame_delay_ms, frames, frame_index,
                   animation_start, calls, sleeps, fails, renders, cycle_start,
                   last_cycle, err_time>>
    /\ UNCHANGED parseVars

\* lines 111-113, 198-200: the dwell period is not over; sleep a tick
DwellSleep ==
    /\ pc = "top"
    /\ ~DwellExpired(time_time(now), last_frame_time, current_dwell_secs)
    /\ now + DWELL_TICK_MS <= MaxTime
    /\ current_time' = time_time(now)
    /\ now' = now + DWELL_TICK_MS
    /\ UNCHANGED <<clock_res, learned_dwell, pc, last_frame_time, current_dwell_secs, retry_count, attempt,
                   pixel_data, headers, frame_count, frame_delay_ms, frames,
                   frame_index, animation_start, screen, outcome, calls, sleeps,
                   fails, renders, cycle_start, last_cycle, err_time>>
    /\ UNCHANGED parseVars

\* lines 111-118: the dwell period is over; a fetch cycle starts
StartFetch ==
    /\ pc = "top"
    /\ DwellExpired(time_time(now), last_frame_time, current_dwell_secs)
    /\ current_time' = time_time(now)
    /\ pixel_data' = None
    /\ headers' = None
    /\ attempt' = 0
    /\ pc' = "attempt"
    /\ calls' = 0
    /\ sleeps' = 0
    /\ fails' = 0
    /\ cycle_start' = now
    /\ UNCHANGED <<clock_res, learned_dwell, now, last_frame_time, current_dwell_secs, retry_count,
                   frame_count, frame_delay_ms, frames, frame_index,
                   animation_start, screen, outcome, renders, last_cycle, err_time>>
    /\ UNCHANGED parseVars

\* lines 118-127: one pass of the retry loop
FetchAttempt ==
    /\ pc = "attempt"
    /\ \E o \in Outcomes, lat \in Latencies :
         LET r == fetch_frame(o) IN
         /\ outcome' = o
         /\ pixel_data' = r.pixels
         /\ headers' = r.headers
         /\ calls' = calls + 1
         /\ IF BreaksRetryLoop(r)
            THEN \* line 122: break
                 /\ now + lat <= MaxTime
                 /\ now' = now + lat
                 /\ pc' = "fetched"
                 /\ renders' = <<>>
                 /\ UNCHANGED <<attempt, sleeps, fails>>
            ELSE IF NeedRetrySleep(attempt)
            THEN \* line 127: time.sleep(FRAME_FETCH_RETRY_DELAY)
                 /\ now + lat + FRAME_FETCH_RETRY_DELAY * 1000 <= MaxTime
                 /\ now' = now + lat + FRAME_FETCH_RETRY_DELAY * 1000
                 /\ sleeps' = sleeps + 1
                 /\ fails' = fails + 1
                 /\ IF attempt + 1 < FRAME_FETCH_RETRY_ATTEMPTS
                    THEN attempt' = attempt + 1 /\ pc' = "attempt"
                    ELSE attempt' = attempt /\ pc' = "fetched"
                 /\ UNCHANGED renders
            ELSE /\ now + lat <= MaxTime
                 /\ now' = now + lat
                 /\ fails' = fails + 1
                 /\ IF attempt + 1 < FRAME_FETCH_RETRY_ATTEMPTS
                    THEN attempt' = attempt + 1 /\ pc' = "attempt"
                    ELSE attempt' = attempt /\ pc' = "fetched"
                 /\ UNCHANGED <<sleeps, renders>>
    /\ UNCHANGED <<clock_res, learned_dwell, current_time, last_frame_time, current_dwell_secs, retry_count,
                   frame_count, frame_delay_ms, frames, frame_index,
                   animation_start, screen, cycle_start, last_cycle, err_time>>
    /\ UNCHANGED parseVars

\* lines 130-137: every attempt failed
FetchExhausted ==
    /\ pc = "fetched"
    /\ ~pixel_data.some
    /\ now + ERROR_DISPLAY_TIME * 1000 <= MaxTime
    /\ screen' = [kind |-> "connection"]
    /\ err_time' = now
    /\ now' = now + ERROR_DISPLAY_TIME * 1000
    /\ retry_count' = RetryCountAfterFailure(retry_count)
    /\ current_dwell_secs' = ErrorDwell(current_dwell_secs)
    /\ last_frame_time' = current_time
    /\ last_cycle' = "exhausted"
    /\ pc' = AfterErrorHold
    /\ UNCHANGED <<clock_res, learned_dwell, current_time, attempt, pixel_data, headers, frame_count,
                   frame_delay_ms, frames, frame_index, animation_start, outcome,
                   calls, sleeps, fails, renders, cycle_start>>
    /\ UNCHANGED parseVars

\* lines 139-155: the response declares another resolution
DimensionMismatch ==
    /\ pc = "fetched"
    /\ pixel_data.some
    /\ LET server_width == DictGet(headers.val, "width", DISPLAY_WIDTH)
           server_height == DictGet(headers.val, "height", DISPLAY_HEIGHT)
       IN  ~DimensionsMatch(server_width, server_height)
    /\ now + ERROR_DISPLAY_TIME * 1000 <= MaxTime
    /\ frame_count' = DictGet(headers.val, "frame_count", 1)
    /\ frame_delay_ms' = DictGet(headers.val, "delay_ms", 100)
    /\ screen' = [kind |-> "format"]
    /\ err_time' = now
    /\ now' = now + ERROR_DISPLAY_TIME * 1000
    /\ current_dwell_secs' = ErrorDwell(DictGet(headers.val, "dwell_secs", DEFAULT_DWELL_SECS))
    /\ last_frame_time' = current_time
    /\ last_cycle' = "mismatch"
    /\ pc' = AfterErrorHold
    /\ UNCHANGED <<clock_res, learned_dwell, current_time, retry_count, attempt, pixel_data, headers, frames,
                   frame_index, animation_start, outcome, calls, sleeps, fails,
                   renders, cycle_start>>
    /\ UNCHANGED parseVars

\* lines 139-171: the resolution matches and parse_frame_data returns None
ParseFailed ==
    /\ pc = "fetched"
    /\ pixel_data.some
    /\ LET server_width == DictGet(headers.val, "width", DISPLAY_WIDTH)
           server_height == DictGet(headers.val, "height", DISPLAY_HEIGHT)
           n == DictGet(headers.val, "frame_count", 1)
           parsed == parse_frame_data(pixel_data.val, n, server_width, server_height)
       IN  /\ DimensionsMatch(server_width, server_height)
           /\ ~parsed.some
           /\ frames' = parsed
    /\ now + ERROR_DISPLAY_TIME * 1000 <= MaxTime
    /\ frame_count' = DictGet(headers.val, "frame_count", 1)
    /\ frame_delay_ms' = DictGet(headers.val, "delay_ms", 100)
    /\ screen' = [kind |-> "format"]
    /\ err_time' = now
    /\ now' = now + ERROR_DISPLAY_TIME * 1000
    /\ current_dwell_secs' = ErrorDwell(DictGet(headers.val, "dwell_secs", DEFAULT_DWELL_SECS))
    /\ last_frame_time' = current_time
    /\ last_cycle' = "undecodable"
    /\ pc' = AfterErrorHold
    /\ UNCHANGED <<clock_res, learned_dwell, current_time, retry_count, attempt, pixel_data, headers,
                   frame_index, animation_start, outcome, calls, sleeps, fails,
                   renders, cycle_start>>
    /\ UNCHANGED parseVars

\* lines 139-178: the resolution matches and the payload decodes; playback starts
BeginAnimation ==
    /\ pc = "fetched"
    /\ pixel_data.some
    /\ LET server_width == DictGet(headers.val, "width", DISPLAY_WIDTH)
           server_height == DictGet(headers.val, "height", DISPLAY_HEIGHT)
           n == DictGet(headers.val, "frame_count", 1)
           parsed == parse_frame_data(pixel_data.val, n, server_width, server_height)
       IN  /\ DimensionsMatch(server_width, server_height)
           /\ parsed.some
           /\ frames' = parsed
    /\ frame_count' = DictGet(headers.val, "frame_count", 1)
    /\ frame_delay_ms' = DictGet(headers.val, "delay_ms", 100)
    /\ current_dwell_secs' = DictGet(headers.val, "dwell_secs", DEFAULT_DWELL_SECS)
    /\ learned_dwell' = DictGet(headers.val, "dwell_secs", DEFAULT_DWELL_SECS)
    /\ animation_start' = time_time(now)
    /\ frame_index' = 0
    /\ pc' = "play"
    /\ UNCHANGED <<clock_res, now, current_time, last_frame_time, retry_count, attempt,
                   pixel_data, headers, screen, outcome, calls, sleeps, fails,
                   renders, cycle_start, last_cycle, err_time>>
    /\ UNCHANGED parseVars

\* lines 180-196: one pass of the playback loop; ok is whether the sink's push
\* of the frame succeeds
PlayPass(ok) ==
    /\ pc = "play"
    /\ IF frame_index >= Len(frames.val)
       THEN \* frames[frame_index] raises IndexError
            /\ pc' = "raised"
            /\ UNCHANGED <<now, last_frame_time, retry_count, frame_index, screen,
                           renders, last_cycle>>
       ELSE /\ ok \in PushOutcomes
            /\ screen' = display_frame(screen, frames.val[frame_index + 1], ok)
            /\ renders' = Append(renders, [t |-> now, index |-> frame_index,
                                           frame |-> frames.val[frame_index + 1],
                                           ok |-> ok])
            /\ IF RenderAborts(ok)
               THEN /\ pc' = "raised"
                    /\ UNCHANGED <<now, last_frame_time, retry_count, frame_index,
                                   last_cycle>>
               ELSE /\ frame_index' = frame_index + 1
                    /\ IF AnimationComplete(frame_index + 1, frame_count)
                       THEN \* lines 188, 195-196
                            /\ last_frame_time' = PlaybackEndTime(time_time(now), animation_start)
                            /\ retry_count' = 0
                            /\ last_cycle' = "played"
                            /\ pc' = "top"
                            /\ UNCHANGED now
                       ELSE \* lines 191-192
                            /\ now + delay_seconds(frame_delay_ms) <= MaxTime
                            /\ now' = now + delay_seconds(frame_delay_ms)
                            /\ UNCHANGED <<pc, last_frame_time, retry_count, last_cycle>>
    /\ UNCHANGED <<clock_res, learned_dwell, current_time, current_dwell_secs, attempt, pixel_data, headers,
                   frame_count, frame_delay_ms, frames, animation_start, outcome,
                   calls, sleeps, fails, cycle_start, err_time>>
    /\ UNCHANGED parseVars

\* A pass of the playback loop with a panel that takes the frame.
PlayFrame == PlayPass(TRUE)

\* A pass of the playback loop with a panel whose push fails.
PlayFrameFailed == PlayPass(FALSE)

\* lines 206-213: an exception other than KeyboardInterrupt left the iteration
HandleException ==
    /\ pc = "raised"
    /\ now + ERROR_DISPLAY_TIME * 1000 <= MaxTime
    /\ screen' = [kind |-> "connection"]
    /\ err_time' = now
    /\ now' = now + ERROR_DISPLAY_TIME * 1000
    /\ current_dwell_secs' = DEFAULT_DWELL_SECS
    /\ last_frame_time' = HandlerRestartTime(time_time(now),
                                          time_time(now + ERROR_DISPLAY_TIME * 1000))
    /\ last_cycle' = "exception"
    /\ pc' = AfterErrorHold
    /\ UNCHANGED <<clock_res, learned_dwell, current_time, retry_count, attempt, pixel_data, headers,
                   frame_count, frame_delay_ms, frames, frame_index,
                   animation_start, outcome, calls, sleeps, fails, renders,
                   cycle_start>>
    /\ UNCHANGED parseVars

Next ==
    \/ Startup
    \/ DwellSleep
    \/ StartFetch
    \/ FetchAttempt
    \/ FetchExhausted
    \/ DimensionMismatch
    \/ ParseFailed
    \/ BeginAnimation
    \/ PlayFrame
    \/ HandleException

Spec == Init /\ [][Next]_vars

\* The loop with a render sink whose pushes may fail.
NextFaulty == Next \/ PlayFrameFailed

FaultySpec == Init /\ [][NextFaulty]_vars

\* The loop runs on: every time.sleep returns and every transport call returns
\* or raises (urequests.get has timeout=10), so a step that can be taken is taken.
LiveSpec == Init /\ [][Next]_vars /\ WF_vars(Next)

----------------------------------------------------------------------------
(* The decoder on its own: parse_frame_data applied to every small input *)

ByteValues == {0, 255}
FrameCounts == -1 .. 3
Dimensions == -1 .. 2
Payloads == UNION {[1 .. k -> ByteValues] : k \in 0 .. MaxLen}

\* bytes(seq)
BytesOf(payload) == [body |-> payload, lo |-> 0, hi |-> Len(payload)]

\* The byte values of a bytes object whose body is a sequence.
BytesValue(b) == SubSeq(b.body, b.lo + 1, b.hi)

\* The concatenation of the first k frames.
RECURSIVE Concat(_, _)
Concat(fs, k) == IF k <= 0 THEN <<>> ELSE Concat(fs, k - 1) \o BytesValue(fs[k])

InitParse ==
    /\ now = 0
    /\ clock_res = 1
    /\ pc = "off"
    /\ current_time = 0
    /\ last_frame_time = 0
    /\ current_dwell_secs = DEFAULT_DWELL_SECS
    /\ retry_count = 0
    /\ attempt = 0
    /\ pixel_data = None
    /\ headers = None
    /\ frame_count = 0
    /\ frame_delay_ms = 0
    /\ frames = None
    /\ frame_index = 0
    /\ animation_start = 0
    /\ screen = [kind |-> "blank"]
    /\ outcome = Raise
    /\ calls = 0
    /\ sleeps = 0
    /\ fails = 0
    /\ renders = <<>>
    /\ cycle_start = 0
    /\ last_cycle = "none"
    /\ err_time = 0
    /\ learned_dwell = DEFAULT_DWELL_SECS
    /\ \E payload \in Payloads, n \in FrameCounts, w \in Dimensions, h \in Dimensions :
         pin = [payload |-> payload, n |-> n, width |-> w, height |-> h]
    /\ pout = None
    /\ ppc = "call"

\* frames = parse_frame_data(pixel_bytes, frame_count, width, height)
Decode ==
    /\ ppc = "call"
    /\ pout' = parse_frame_data(BytesOf(pin.payload), pin.n, pin.width, pin.height)
    /\ ppc' = "returned"
    /\ UNCHANGED pin
    /\ UNCHANGED schedVars

NextParse == Decode

SpecParse == InitParse /\ [][NextParse]_vars

----------------------------------------------------------------------------
(* Properties *)

\* A fetch cycle has just started: no transport call made yet.
FetchJustStarted == pc = "attempt" /\ calls = 0

\* The last finished iteration showed an error pattern for a failed fetch cycle,
\* a dimension mismatch or a decode failure.
AfterErrorPattern == last_cycle \in {"exhausted", "mismatch", "undecodable"}

\* The last display_frame call since the last successful fetch.
LastRender == renders[Len(renders)]

\* The transport's last answer was a response with a status outside 200..299.
NonSuccessStatus == calls > 0 /\ ~outcome.raise /\ outcome.status \notin 200 .. 299

\* The fetched payload is shorter than the fetched metadata declares.
Truncated ==
    /\ pixel_data.some
    /\ BytesLen(pixel_data.val) <
         headers.val.frame_count * headers.val.width * headers.val.height * 3

(* C1, as the code has it: after a successful fetch whose payload decodes to  *)
(* n >= 1 frames, frames 0, 1, ..., n-1 are rendered once each, in order,     *)
(* frame i at i * frame_delay_ms after the first, and nothing more is         *)
(* rendered while the dwell period runs; for n = 1 the frame is rendered once.*)
C1_PlaysEachFrameOnce ==
    /\ \A i \in 1 .. Len(renders) :
         /\ frames.some
         /\ renders[i].index = i - 1
         /\ renders[i].frame = frames.val[i]
         /\ renders[i].t = renders[1].t + (i - 1) * frame_delay_ms
    /\ Len(renders) <= Max(frame_count, 0)
    /\ (pc = "top" /\ last_cycle = "played") =>
         (frame_count >= 1 /\ Len(renders) = frame_count)

\* C1 witness: a single-frame animation, several frame delays into its dwell
\* period, rendered once.
C1_Witness ==
    /\ pc = "top"
    /\ last_cycle = "played"
    /\ frame_count = 1
    /\ Len(renders) = 1
    /\ frame_delay_ms > 0
    /\ now - renders[1].t >= 3 * frame_delay_ms
    /\ time_time(now) - last_frame_time < current_dwell_secs * 1000

(* C1 as claimed: playback loops while the dwell window is open, so at every  *)
(* dwell test after a successful fetch of an animation with a positive frame  *)
(* delay, a frame was rendered within the last frame_delay_ms (plus one tick).*)
C1_LoopsUntilDwellExpiry ==
    (pc = "top" /\ last_cycle = "played" /\ frame_delay_ms > 0) =>
        now - LastRender.t <= frame_delay_ms + DWELL_TICK_MS

(* C2, as the code has it: playback is never preempted.  When the fetch cycle *)
(* after an animation starts, every frame of the animation has been rendered  *)
(* and the dwell has elapsed, to the resolution of the clock, since the last  *)
(* of them was rendered.                                                      *)
C2_PlaybackRunsToCompletion ==
    (FetchJustStarted /\ last_cycle = "played") =>
        /\ Len(renders) = frame_count
        /\ now - LastRender.t > current_dwell_secs * 1000 - clock_res

\* C2 witness: the next fetch starts after an animation that took longer than
\* its dwell and was played to its last frame all the same.
C2_Witness ==
    /\ FetchJustStarted
    /\ last_cycle = "played"
    /\ Len(renders) = frame_count
    /\ LastRender.t - renders[1].t > current_dwell_secs * 1000

(* C2 as claimed: once the dwell has elapsed since the fetch (playback starts *)
(* with the first render, right after it), the scheduler is no longer in      *)
(* playback.                                                                  *)
C2_DwellExpiryPreempts ==
    (pc = "play" /\ renders # <<>>) =>
        now - renders[1].t < current_dwell_secs * 1000

(* C3, as the code has it: the fetch after an animation starts when           *)
(* dwell_secs have elapsed since the END of playback, that is                 *)
(* (n-1) * frame_delay_ms + dwell_secs after the first render (within one     *)
(* tick, and to the resolution of the clock); with frame_count 2,             *)
(* frame_delay_ms 200, dwell_secs 5 the renders are frame 0 at 0 and frame 1  *)
(* at 200 ms and no more, and with a millisecond clock the fetch starts at    *)
(* 5200 ms.                                                                   *)
C3_RefetchAfterPlaybackPlusDwell ==
    (FetchJustStarted /\ last_cycle = "played") =>
        LET due == (frame_count - 1) * frame_delay_ms + current_dwell_secs * 1000
            t == now - renders[1].t
        IN  /\ due - clock_res < t
            /\ t < due + DWELL_TICK_MS
            /\ (frame_count = 2 /\ frame_delay_ms = 200 /\ current_dwell_secs = 5) =>
                 /\ clock_res = 1 => t = 5200
                 /\ Len(renders) = 2
                 /\ renders[1].index = 0
                 /\ renders[2].index = 1 /\ renders[2].t = renders[1].t + 200

\* C3 witness: the fetch that follows the animation with frame_count 2,
\* frame_delay_ms 200, dwell_secs 5.
C3_Witness ==
    /\ FetchJustStarted
    /\ last_cycle = "played"
    /\ frame_count = 2 /\ frame_delay_ms = 200 /\ current_dwell_secs = 5
    /\ Len(renders) = 2
    /\ now - renders[1].t = 5200

(* C3 as claimed: the fetch after an animation starts dwell_secs after the    *)
(* fetch, however long the animation plays (within one tick).                 *)
C3_RefetchDwellAfterFetch ==
    (FetchJustStarted /\ last_cycle = "played") =>
        now - renders[1].t < current_dwell_secs * 1000 + DWELL_TICK_MS

(* C4, as the code has it: after the error pattern of a failed fetch cycle, a *)
(* dimension mismatch or a decode failure, the loop is back at the dwell test *)
(* ERROR_DISPLAY_TIME later at the earliest, and each dwell test starts the   *)
(* next fetch exactly if the clock shows that DEFAULT_DWELL_SECS have elapsed *)
(* since the failed cycle started.                                            *)
C4_RetryWaitsDefaultDwell ==
    [][(pc = "top" /\ AfterErrorPattern) =>
         /\ now >= err_time + ERROR_DISPLAY_TIME * 1000
         /\ (pc' = "attempt") <=>
              (time_time(now) - time_time(cycle_start) >= DEFAULT_DWELL_SECS * 1000)]_vars

\* C4 witness: a fetch that starts after an error pattern, well after the
\* error hold is over.
C4_Witness ==
    /\ FetchJustStarted
    /\ AfterErrorPattern
    /\ now - err_time > 2 * ERROR_DISPLAY_TIME * 1000

(* C4 as claimed: the fetch after an error pattern starts as soon as          *)
(* ERROR_DISPLAY_TIME has elapsed.                                            *)
C4_RetryRightAfterHold ==
    (FetchJustStarted /\ AfterErrorPattern) =>
        now = err_time + ERROR_DISPLAY_TIME * 1000

(* C5: a fetch cycle that succeeds on attempt k made k transport calls, k-1   *)
(* of them failed, it slept the retry delay k-1 times, k is at most           *)
(* FRAME_FETCH_RETRY_ATTEMPTS, the payload is the body of the last response,  *)
(* and no further call is made while that payload is handled.                 *)
C5_StopsAtFirstSuccess ==
    pixel_data.some =>
        /\ calls = fails + 1
        /\ sleeps = fails
        /\ calls <= FRAME_FETCH_RETRY_ATTEMPTS
        /\ ~outcome.raise
        /\ pixel_data.val = Content(outcome)

\* C5 witness: two failures, then a success, being played.
C5_Witness ==
    /\ pixel_data.some
    /\ pc = "play"
    /\ fails = 2
    /\ sleeps = 2
    /\ calls = 3

(* C6: while a fetch cycle is failing every failed attempt so far was         *)
(* followed by a sleep; once it has failed for good it made exactly           *)
(* FRAME_FETCH_RETRY_ATTEMPTS calls and slept one time fewer.                 *)
C6_ExhaustionAfterMaxAttempts ==
    /\ pc = "attempt" =>
         /\ attempt < FRAME_FETCH_RETRY_ATTEMPTS
         /\ calls = attempt /\ fails = attempt /\ sleeps = attempt
    /\ ((pc = "fetched" /\ ~pixel_data.some) \/ (pc = "top" /\ last_cycle = "exhausted")) =>
         /\ calls = FRAME_FETCH_RETRY_ATTEMPTS
         /\ fails = FRAME_FETCH_RETRY_ATTEMPTS
         /\ sleeps = FRAME_FETCH_RETRY_ATTEMPTS - 1

\* C6 witness: a failed fetch cycle, its error pattern shown.
C6_Witness ==
    /\ pc = "top"
    /\ last_cycle = "exhausted"
    /\ screen.kind = "connection"
    /\ ~pixel_data.some
    /\ calls = FRAME_FETCH_RETRY_ATTEMPTS

(* C7: for a payload of exactly n*w*h*3 bytes, n >= 1, parse_frame_data       *)
(* returns n frames of w*h*3 bytes each, frame i being the bytes              *)
(* i*w*h*3 .. (i+1)*w*h*3 - 1 of the payload, and the frames concatenated in  *)
(* order are the payload.                                                     *)
C7_DecodeRoundTrip ==
    LET b == pin.width * pin.height * 3 IN
    (ppc = "returned" /\ pin.n >= 1 /\ Len(pin.payload) = pin.n * b) =>
        /\ pout.some
        /\ Len(pout.val) = pin.n
        /\ \A i \in 1 .. pin.n :
             /\ BytesLen(pout.val[i]) = b
             /\ BytesValue(pout.val[i]) = SubSeq(pin.payload, (i - 1) * b + 1, i * b)
        /\ Concat(pout.val, Len(pout.val)) = pin.payload

\* C7 witness: three one-pixel frames whose first bytes differ.
C7_Witness ==
    /\ ppc = "returned"
    /\ pin.n = 3
    /\ pin.width * pin.height = 1
    /\ Len(pin.payload) = 9
    /\ pin.payload[1] # pin.payload[4]
    /\ pout.some

\* The lengths and sizes the decoder is tried on inside the scheduler's
\* specification.
ShortLens == 0 .. 12
SmallSizes == 0 .. 2

(* C8: parse_frame_data returns None for every payload shorter than n*w*h*3,  *)
(* and a fetched payload shorter than its metadata declares is never played:  *)
(* no frame of it is rendered and the format pattern is shown.  (The first    *)
(* part does not depend on the state; it is evaluated where a response waits  *)
(* to be decoded.)                                                            *)
C8_TruncatedPayloadRejected ==
    /\ pc = "fetched" =>
         \A len \in ShortLens, n \in 1 .. 3, w \in SmallSizes, h \in SmallSizes :
            len < n * w * h * 3 =>
               ~parse_frame_data([body |-> "payload", lo |-> 0, hi |-> len], n, w, h).some
    /\ Truncated =>
         /\ pc \in {"fetched", "top"}
         /\ renders = <<>>
         /\ pc = "top" =>
              /\ screen.kind = "format"
              /\ last_cycle \in {"mismatch", "undecodable"}
              /\ last_cycle = "undecodable" => ~frames.some

\* C8 witness: a response declaring two frames and carrying one, rejected.
C8_Witness ==
    /\ Truncated
    /\ pc = "top"
    /\ headers.val.frame_count = 2
    /\ BytesLen(pixel_data.val) = FrameBytes
    /\ last_cycle = "undecodable"
    /\ ~frames.some

(* C9: two successive display_frame calls between two successful fetches are  *)
(* at least frame_delay_ms apart.                                             *)
C9_FramePacing ==
    \A i \in 1 .. Len(renders) - 1 :
        renders[i + 1].t - renders[i].t >= frame_delay_ms

\* C9 witness: three frames rendered with a frame delay of 600 ms.
C9_Witness ==
    /\ Len(renders) = 3
    /\ frame_delay_ms = 600

(* C10: an attempt whose response has a status outside 200..299 yields no     *)
(* payload, and such a response is never played.                              *)
C10_NonSuccessStatusFails ==
    NonSuccessStatus => (~pixel_data.some /\ pc # "play")

\* The fetched metadata declares a resolution other than the device's.
Mismatched ==
    /\ pixel_data.some
    /\ (headers.val.width # DISPLAY_WIDTH \/ headers.val.height # DISPLAY_HEIGHT)

(* C11: when an iteration has ended on an error path (fetch cycle exhausted,  *)
(* dimension mismatch, decode failure) the dwell in force is                  *)
(* DEFAULT_DWELL_SECS, whatever dwell was learned before or came with the     *)
(* rejected response: the next fetch is due exactly when the clock reads      *)
(* DEFAULT_DWELL_SECS past the start of the failed cycle.                     *)
C11_ErrorResetsDwell ==
    (pc = "top" /\ AfterErrorPattern) =>
        /\ current_dwell_secs = DEFAULT_DWELL_SECS
        /\ DwellExpired(time_time(now), last_frame_time, current_dwell_secs)
             <=> time_time(now) - time_time(cycle_start) >= DEFAULT_DWELL_SECS * 1000

\* C11 witness: an error pattern has been shown after an animation whose
\* dwell_secs was longer than the default, and the default is in force.
C11_Witness ==
    /\ pc = "top"
    /\ AfterErrorPattern
    /\ learned_dwell > DEFAULT_DWELL_SECS
    /\ current_dwell_secs = DEFAULT_DWELL_SECS

(* C12: a fetch cycle none of whose attempts brought a payload renders no     *)
(* frame; when it is exhausted the loop shows the "connection" pattern, adds  *)
(* exactly one to retry_count, and holds for ERROR_DISPLAY_TIME seconds       *)
(* before it is back at the top of the loop.                                  *)
C12_ExhaustionShowsConnection ==
    [][ /\ (pc = "attempt" /\ ~pixel_data'.some) =>
             (renders' = renders /\ screen' = screen)
        /\ (pc = "fetched" /\ ~pixel_data.some) =>
             /\ renders' = renders
             /\ screen'.kind = "connection"
             /\ retry_count' = retry_count + 1
             /\ now' = now + ERROR_DISPLAY_TIME * 1000
             /\ pc' = "top" ]_vars

\* C12 witness: an animation was played, and the next fetch cycle was
\* exhausted: one failure counted, the "connection" pattern held for 3 s.
C12_Witness ==
    /\ pc = "top"
    /\ last_cycle = "exhausted"
    /\ Len(renders) = 1
    /\ retry_count = 1
    /\ screen.kind = "connection"
    /\ now = err_time + ERROR_DISPLAY_TIME * 1000

(* C13: a fetched response whose declared resolution is not the device's, or  *)
(* whose payload is shorter than declared, is answered with the "format"      *)
(* pattern held for ERROR_DISPLAY_TIME seconds; no frame of it is rendered    *)
(* and retry_count keeps its value.                                           *)
C13_RejectionShowsFormat ==
    [][ (pc = "fetched" /\ (Mismatched \/ Truncated)) =>
          /\ screen'.kind = "format"
          /\ now' = now + ERROR_DISPLAY_TIME * 1000
          /\ retry_count' = retry_count
          /\ renders' = <<>>
          /\ pc' = "top" ]_vars

\* C13 witness: a response was rejected after an exhausted fetch cycle; the
\* failure it counted is still counted.
C13_Witness ==
    /\ pc = "top"
    /\ last_cycle \in {"mismatch", "undecodable"}
    /\ retry_count = 1
    /\ screen.kind = "format"
    /\ renders = <<>>
    /\ now = err_time + ERROR_DISPLAY_TIME * 1000

(* C14: when an iteration that fetched a response of the device's resolution  *)
(* whose payload decoded is over, the first frame rendered since the fetch is *)
(* frame 0 of that payload, retry_count is 0 and the dwell in force is the    *)
(* response's dwell_secs.                                                     *)
C14_SuccessInstallsAnimation ==
    (pc = "top" /\ pixel_data.some /\ ~Mismatched /\ ~Truncated) =>
        /\ renders # <<>>
        /\ renders[1].index = 0
        /\ renders[1].frame.body = pixel_data.val.body
        /\ retry_count = 0
        /\ current_dwell_secs = headers.val.dwell_secs

(* C15: nothing is rendered between a fetch and the decoding of its payload;  *)
(* when a frame is rendered the whole payload has been length-checked and     *)
(* sliced into frame_count frames of width*height*3 bytes, and every rendered *)
(* frame is one of them: frame i is the bytes i*width*height*3 onwards of the *)
(* body of the response decoded last.  After a decode failure no frame of the *)
(* response has been rendered.                                                *)
C15_AtomicInstall ==
    /\ (pc = "fetched" /\ pixel_data.some) => renders = <<>>
    /\ \A i \in 1 .. Len(renders) :
         LET f == renders[i].frame IN
         /\ frames.some
         /\ Len(frames.val) = frame_count
         /\ \A k \in 1 .. frame_count :
               BytesLen(frames.val[k]) = DISPLAY_WIDTH * DISPLAY_HEIGHT * 3
         /\ f = frames.val[renders[i].index + 1]
         /\ BytesLen(f) = DISPLAY_WIDTH * DISPLAY_HEIGHT * 3
         /\ f.lo = renders[i].index * DISPLAY_WIDTH * DISPLAY_HEIGHT * 3
         /\ f.hi <= f.body.len
         /\ pixel_data.some => f.body = pixel_data.val.body
    /\ (pc = "top" /\ last_cycle = "undecodable") =>
         (renders = <<>> /\ ~frames.some)

\* C15 witness: the first of three frames has been rendered, and all three are
\* sliced.
C15_Witness ==
    /\ pc = "play"
    /\ Len(renders) = 1
    /\ frame_count = 3
    /\ Len(frames.val) = 3
    /\ screen.kind = "frame"

\* The time.time() reading at which the dwell period in force is over.
DwellOver == last_frame_time + current_dwell_secs * 1000

(* C16: the loop never ends and never stays away from fetching.  From a state *)
(* in playback, in an error hold or with an exception raised, control is back *)
(* at the loop top, and from the loop top a fetch cycle starts the first tick *)
(* after the dwell in force is over (both while the clock of the model has    *)
(* room for the wait).                                                        *)
C16_EventuallyFetches ==
    /\ (pc \in {"fetched", "play", "raised"} /\ now + ERROR_DISPLAY_TIME * 1000 <= MaxTime)
          ~> (pc = "top")
    /\ (pc = "top" /\ DwellOver + DWELL_TICK_MS <= MaxTime)
          ~> FetchJustStarted

\* C16 witness: a fetch cycle starts after an iteration that ended in the
\* exception handler.
C16_Witness ==
    /\ FetchJustStarted
    /\ last_cycle = "exception"
    /\ screen.kind = "connection"

(* C17: a transport call is made only in a fetch cycle that holds no          *)
(* response, all of whose calls so far have failed; and while the loop holds  *)
(* a response it rejected (declared resolution not the device's, or payload   *)
(* shorter than declared) no call is made: the next call belongs to a new     *)
(* fetch cycle, started from the loop top after the error hold.               *)
C17_RejectionNotRetried ==
    [][ /\ calls' = calls + 1 =>
             (pc = "attempt" /\ ~pixel_data.some /\ fails = calls)
        /\ (pixel_data.some /\ (Mismatched \/ Truncated) /\ calls' # calls) =>
             /\ pc = "top"
             /\ pc' = "attempt"
             /\ calls' = 0
             /\ screen.kind = "format"
             /\ now >= err_time + ERROR_DISPLAY_TIME * 1000 ]_vars

\* C17 witness: a rejected response is held at the loop top, the hold is
\* served and the dwell runs; the one call that brought it is the cycle's last.
C17_Witness ==
    /\ pc = "top"
    /\ last_cycle \in {"mismatch", "undecodable"}
    /\ pixel_data.some
    /\ calls = fails + 1
    /\ fails = 1
    /\ now > err_time + ERROR_DISPLAY_TIME * 1000

\* The value the claim gives a metadata header that the response omits.
HeaderDefault ==
    [width |-> DISPLAY_WIDTH, height |-> DISPLAY_HEIGHT, frame_count |-> 1,
     delay_ms |-> 100, dwell_secs |-> DEFAULT_DWELL_SECS, brightness |-> BRIGHTNESS]

(* C18: an attempt whose response carries no malformed header succeeds        *)
(* whichever metadata headers are missing, and the metadata it returns has,   *)
(* for every header, the value sent or, where the header is missing,          *)
(* DISPLAY_WIDTH, DISPLAY_HEIGHT, 1, 100, DEFAULT_DWELL_SECS and BRIGHTNESS.  *)
C18_HeaderDefaults ==
    (pc = "fetched" /\ ~outcome.raise
       /\ \A name \in HeaderNames : outcome.hdr[name].k # "bad") =>
        /\ pixel_data.some
        /\ headers.some
        /\ \A name \in HeaderNames :
              headers.val[name] = IF outcome.hdr[name].k = "absent"
                                  THEN HeaderDefault[name]
                                  ELSE outcome.hdr[name].v

\* C18 witness: a response without any metadata header has been played as one
\* frame of the device's size with the default dwell.
C18_Witness ==
    /\ pc = "top"
    /\ last_cycle = "played"
    /\ ~outcome.raise
    /\ \A name \in HeaderNames : outcome.hdr[name].k = "absent"
    /\ Len(renders) = 1
    /\ frame_delay_ms = 100
    /\ current_dwell_secs = DEFAULT_DWELL_SECS
    /\ headers.val.brightness = BRIGHTNESS

\* The transport's last answer was a response with a header that is present
\* and not an integer.
MalformedHeader ==
    /\ calls > 0
    /\ ~outcome.raise
    /\ \E name \in HeaderNames : outcome.hdr[name].k = "bad"

(* C19: after an attempt whose response has a numeric header that is present  *)
(* and not an integer, the loop holds neither payload nor metadata, the       *)
(* attempt is counted and followed by the retry sleep like every failed       *)
(* attempt of the cycle, and no frame of that response is or was rendered.    *)
C19_MalformedHeaderFails ==
    MalformedHeader =>
        /\ ~pixel_data.some
        /\ ~headers.some
        /\ fails = calls
        /\ pc = "attempt" => (attempt = calls /\ sleeps = calls)
        /\ \A i \in 1 .. Len(renders) : renders[i].frame.body # outcome.body
        /\ screen.kind = "frame" => screen.frame.body # outcome.body

\* C19 witness: the first attempt of a cycle brought a malformed header; it is
\* counted as failed, the retry sleep is over and the second attempt is due.
C19_Witness ==
    /\ MalformedHeader
    /\ pc = "attempt"
    /\ calls = 1
    /\ fails = 1
    /\ sleeps = 1
    /\ now = cycle_start + FRAME_FETCH_RETRY_DELAY * 1000

\* The loop is at its top and has not started a fetch cycle yet.
BeforeFirstFetch == pc = "top" /\ last_cycle = "none"

(* C20, as the code has it: before the first fetch cycle nothing is rendered, *)
(* and the loop starts that cycle at the first test at which time.time()      *)
(* reads at least DEFAULT_DWELL_SECS (last_frame_time is 0); while the clock  *)
(* reads less, it sleeps a tick instead.                                      *)
C20_FirstFetchWhenClockPastDwell ==
    [][ BeforeFirstFetch =>
          /\ renders = <<>>
          /\ screen.kind # "frame"
          /\ renders' = <<>>
          /\ screen'.kind # "frame"
          /\ pc' = "attempt" <=> time_time(now) >= DEFAULT_DWELL_SECS * 1000
          /\ pc' # "attempt" => (pc' = "top" /\ now' = now + DWELL_TICK_MS) ]_vars

\* C20 witness: the clock read 0 at loop entry; five seconds on the loop is
\* still at its top and has made no fetch attempt.
C20_Witness ==
    /\ BeforeFirstFetch
    /\ now = 5000
    /\ calls = 0
    /\ outcome = Raise
    /\ screen.kind = "blank"

(* C20 as claimed: the step taken from the loop top before the first fetch    *)
(* cycle starts that cycle, whatever the clock reads.                         *)
C20_FirstFetchImmediate ==
    [][ BeforeFirstFetch => pc' = "attempt" ]_vars

(* C21: two successive display_frame calls of one animation are at most       *)
(* MAX_FRAME_DELAY_MS apart, and the delay the playback loop sleeps is at     *)
(* most MAX_FRAME_DELAY_MS, whatever the frame-delay header said.             *)
C21_FrameDelayCapped ==
    /\ pc = "play" => frame_delay_ms <= MAX_FRAME_DELAY_MS
    /\ \A i \in 1 .. Len(renders) - 1 :
          renders[i + 1].t - renders[i].t <= MAX_FRAME_DELAY_MS

C23_RegistrationOptional ==
    /\ [][pc = "startup" => (pc' = "top" /\ ~register_display(outcome').raised)]_vars
    /\ \A o \in RegisterOutcomes :
          (BeforeFirstFetch /\ outcome = o)
             ~> (FetchJustStarted /\ last_cycle = "none" /\ outcome = o)

\* C23 witness: the registration was answered with status 500, and the first
\* fetch cycle has started.
C23_Witness ==
    /\ FetchJustStarted
    /\ last_cycle = "none"
    /\ ~outcome.raise
    /\ outcome.status = 500
    /\ outcome.body.name = "refused"

(* C24: when an iteration is over, the "connection" pattern is on the matrix  *)
(* only if every attempt of its fetch cycle failed, and an iteration that     *)
(* received a response and did not play it has left the "format" pattern.     *)
C24_PatternsTellCause ==
    (pc = "top" /\ last_cycle \notin {"none", "played"}) =>
        /\ screen.kind = "connection" =>
              (~pixel_data.some /\ fails = FRAME_FETCH_RETRY_ATTEMPTS)
        /\ pixel_data.some => screen.kind = "format"

(* C25: an exception raised in an iteration is answered by the handler: the   *)
(* "connection" pattern, a hold of ERROR_DISPLAY_TIME seconds, the dwell set  *)
(* to DEFAULT_DWELL_SECS and counted from the clock reading after the hold,   *)
(* retry_count as it was; the loop is back at its top, and starts the next    *)
(* fetch cycle at the first test at which the clock reads DEFAULT_DWELL_SECS  *)
(* past the end of the hold.                                                  *)
C25_HandlerKeepsLoopRunning ==
    [][ /\ pc = "raised" =>
             /\ pc' = "top"
             /\ screen'.kind = "connection"
             /\ now' = now + ERROR_DISPLAY_TIME * 1000
             /\ current_dwell_secs' = DEFAULT_DWELL_SECS
             /\ last_frame_time' = time_time(now')
             /\ retry_count' = retry_count
        /\ (pc = "top" /\ last_cycle = "exception") =>
             /\ pc' \in {"top", "attempt"}
             /\ pc' = "attempt" <=>
                  time_time(now) - time_time(err_time + ERROR_DISPLAY_TIME * 1000)
                     >= DEFAULT_DWELL_SECS * 1000 ]_vars

\* C25 witness: an exception was raised after an exhausted fetch cycle; the
\* hold is over, the failure is still counted, the default dwell runs from now.
C25_Witness ==
    /\ pc = "top"
    /\ last_cycle = "exception"
    /\ retry_count = 1
    /\ screen.kind = "connection"
    /\ now = err_time + ERROR_DISPLAY_TIME * 1000
    /\ last_frame_time = time_time(now)
    /\ current_dwell_secs = DEFAULT_DWELL_SECS
    /\ learned_dwell # DEFAULT_DWELL_SECS

(* C26: whenever the loop is at its top, where the dwell test is made, the    *)
(* dwell in force is DEFAULT_DWELL_SECS or, the last iteration having played  *)
(* an animation, the dwell_secs of the response played; after a rejected      *)
(* response it is DEFAULT_DWELL_SECS whatever dwell_secs that response had.   *)
C26_DwellInForce ==
    pc = "top" =>
        /\ \/ current_dwell_secs = DEFAULT_DWELL_SECS
           \/ /\ last_cycle = "played"
              /\ headers.some
              /\ current_dwell_secs = headers.val.dwell_secs
              /\ current_dwell_secs = learned_dwell
        /\ last_cycle \in {"mismatch", "undecodable"} =>
              current_dwell_secs = DEFAULT_DWELL_SECS

\* C26 witness: an animation with its own dwell was played, and the next
\* response, with yet another dwell_secs, was rejected: the default is in force.
C26_Witness ==
    /\ pc = "top"
    /\ last_cycle \in {"mismatch", "undecodable"}
    /\ learned_dwell # DEFAULT_DWELL_SECS
    /\ headers.val.dwell_secs \notin {DEFAULT_DWELL_SECS, learned_dwell}
    /\ current_dwell_secs = DEFAULT_DWELL_SECS

====
